---- MODULE Spec2Model ----
(***************************************************************************)
(* Model of the filesystem-usage MCP example pair:                         *)
(*   server  src/analyze/server-client-test/server/mcp-server-example.py   *)
(*   client  src/analyze/server-client-test/client/mcp-client-example.py   *)
(*                                                                         *)
(* A Python string is modelled as a sequence of tokens in which the token  *)
(* NL is the newline character; str.join and str.split work on that        *)
(* representation.  Numeric figures are abstracted to one token each.      *)
(***************************************************************************)
EXTENDS Naturals, Sequences, FiniteSets

VARIABLES
    os,         \* what psutil reports: per-partition usage outcome, I/O outcome
    inflight,   \* requests received by the server and not yet answered
    log,        \* answered requests, in the order the handlers ran
    pc,         \* Request Driver: "post", "await" or "finished"
    step,       \* Request Driver: which of the four requests it is at
    reqState,   \* Request Driver: per request "idle", "awaiting" or "done"
    sent,       \* Request Driver: the envelopes posted so far, in order
    resp,       \* the dispatcher's answer waiting to be sent to the driver
    out,        \* Request Driver: what was printed for each request
    aborted     \* Request Driver: the outer except clause was taken

vars == <<os, inflight, log, pc, step, reqState, sent, resp, out, aborted>>
driverVars == <<pc, step, reqState, sent, resp, out, aborted>>

---------------------------------------------------------------------------
(* Bounds *)

MaxParts == 2
MaxInflight == 2
MaxLog == 2
MaxHistory == 3

---------------------------------------------------------------------------
(* Strings *)

NL == "\n"

Min(a, b) == IF a < b THEN a ELSE b

\* "\n".join(items)
RECURSIVE JoinNL(_)
JoinNL(items) ==
    IF items = <<>> THEN <<>>
    ELSE IF Len(items) = 1 THEN items[1]
    ELSE items[1] \o <<NL>> \o JoinNL(Tail(items))

\* the positions of the newlines of s
Newlines(s) == {i \in 1..Len(s) : s[i] = NL}

\* text.split('\n'): the piece before the first newline, then the pieces of
\* the rest; a text without a newline is one piece
RECURSIVE SplitNL(_)
SplitNL(s) ==
    LET nl == Newlines(s)
    IN IF nl = {} THEN <<s>>
       ELSE LET i == CHOOSE n \in nl : \A m \in nl : n <= m
            IN <<SubSeq(s, 1, i - 1)>> \o SplitNL(SubSeq(s, i + 1, Len(s)))

\* mutant: the slice is dropped
TakeAll(lines, n) == lines

\* lines[:n]
Take(lines, n) == SubSeq(lines, 1, Min(n, Len(lines)))

---------------------------------------------------------------------------
(* Operating system, as seen through psutil *)

DeviceNames == <<"/dev/sda1", "/dev/sdb1", "/dev/sdc1", "/dev/sdd1">>

\* psutil.disk_usage(mountpoint): returns, raises PermissionError, or raises
\* another OSError (FileNotFoundError for a stale mount, "device not ready")
UsageOutcomes == {"ok", "perm", "oserr"}

\* psutil.disk_io_counters(): returns counters, returns None, or raises
IoOutcomes == {"ok", "none", "err"}

RECURSIVE SeqsUpTo(_, _)
SeqsUpTo(S, n) ==
    IF n = 0 THEN {<<>>}
    ELSE LET shorter == SeqsUpTo(S, n - 1)
         IN shorter \cup {Append(q, x) : q \in {r \in shorter : Len(r) = n - 1}, x \in S}

OsStates == [usage : SeqsUpTo(UsageOutcomes, MaxParts), io : IoOutcomes]

MountNames == <<"/", "/home", "/mnt/data", "/media/cdrom">>

FsTypes == <<"ext4", "ext4", "xfs", "iso9660">>

\* psutil.disk_partitions()
disk_partitions(o) ==
    [i \in 1..Len(o.usage) |->
        [device |-> DeviceNames[i], mountpoint |-> MountNames[i],
         fstype |-> FsTypes[i], opts |-> "rw", status |-> o.usage[i]]]

---------------------------------------------------------------------------
(* Server: handlers *)

ToolNames == {"health", "get_disk_usage", "get_detailed_disk_info"}

\* types.TextContent(type="text", text=...)
TextContent(text) == [type |-> "text", text |-> text]

\* a handler returns a list of content blocks, or raises
Returned(content, ran) ==
    [variant |-> "success", payload |-> "content", content |-> content,
     tools |-> <<>>, message |-> <<>>, ran |-> ran]

Raised(message, ran) ==
    [variant |-> "error", payload |-> "none", content |-> <<>>,
     tools |-> <<>>, message |-> message, ran |-> ran]

Dashes == "----------------------------------------"

\* the f-string appended when psutil.disk_usage returns
UsageEntry(p) ==
    <<"Device: ", p.device, NL,
      "Mountpoint: ", p.mountpoint, NL,
      "Filesystem: ", p.fstype, NL,
      "Total: ", p.mountpoint, " GB", NL,
      "Used: ", p.mountpoint, " GB", NL,
      "Free: ", p.mountpoint, " GB", NL,
      "Usage: ", p.mountpoint, "%", NL,
      Dashes>>

\* the f-string appended in the except PermissionError branch
DeniedEntry(p) ==
    <<"Device: ", p.device, NL,
      "Mountpoint: ", p.mountpoint, NL,
      "Filesystem: ", p.fstype, NL,
      "Status: Permission denied", NL,
      Dashes>>

\* mutant: PermissionError is not caught and ends the call like any other
RECURSIVE UsageLoopUncaught(_, _, _)
UsageLoopUncaught(parts, i, disk_info) ==
    IF i > Len(parts) THEN [raised |-> FALSE, at |-> 0, disk_info |-> disk_info]
    ELSE IF parts[i].status = "ok"
         THEN UsageLoopUncaught(parts, i + 1, Append(disk_info, UsageEntry(parts[i])))
    ELSE [raised |-> TRUE, at |-> i, disk_info |-> disk_info]

\* the for loop of get_disk_usage from partition i on; an exception other
\* than PermissionError leaves the loop and the function
RECURSIVE UsageLoop(_, _, _)
UsageLoop(parts, i, disk_info) ==
    IF i > Len(parts) THEN [raised |-> FALSE, at |-> 0, disk_info |-> disk_info]
    ELSE IF parts[i].status = "ok"
         THEN UsageLoop(parts, i + 1, Append(disk_info, UsageEntry(parts[i])))
    ELSE IF parts[i].status = "perm"
         THEN UsageLoop(parts, i + 1, Append(disk_info, DeniedEntry(parts[i])))
    ELSE [raised |-> TRUE, at |-> i, disk_info |-> disk_info]

get_disk_usage(o) ==
    LET parts == disk_partitions(o)
        loop == UsageLoop(parts, 1, <<>>)
        result_text == <<"Disk Usage Information:", NL, NL>> \o JoinNL(loop.disk_info)
    IN IF loop.raised
       THEN Raised(<<"OSError: ", parts[loop.at].mountpoint>>, <<"get_disk_usage">>)
       ELSE Returned(<<TextContent(result_text)>>, <<"get_disk_usage">>)

PartitionHeader(p) ==
    <<"Device: ", p.device, NL,
      "Mountpoint: ", p.mountpoint, NL,
      "Filesystem: ", p.fstype, NL,
      "Options: ", p.opts>>

DetailedUsage(p) ==
    <<"  Total: ", p.mountpoint, " GB", NL,
      "  Used: ", p.mountpoint, " GB (", p.mountpoint, "%)", NL,
      "  Free: ", p.mountpoint, " GB", NL>>

\* the for loop of get_detailed_disk_info from partition i on
RECURSIVE DetailedLoop(_, _, _)
DetailedLoop(parts, i, disk_info) ==
    IF i > Len(parts) THEN [raised |-> FALSE, at |-> 0, disk_info |-> disk_info]
    ELSE LET withHeader == Append(disk_info, PartitionHeader(parts[i]))
         IN IF parts[i].status = "ok"
            THEN DetailedLoop(parts, i + 1,
                     withHeader \o <<DetailedUsage(parts[i]), <<>>>>)
            ELSE IF parts[i].status = "perm"
            THEN DetailedLoop(parts, i + 1,
                     withHeader \o <<<<"  Status: Permission denied">>, <<>>>>)
            ELSE [raised |-> TRUE, at |-> i, disk_info |-> withHeader]

\* the disk I/O block: every exception is caught here
IoStatistics(o) ==
    IF o.io = "ok"
    THEN <<"Read Count: ", "n", NL, "Write Count: ", "n", NL,
           "Read Bytes: ", "n", " MB", NL, "Write Bytes: ", "n", " MB", NL,
           "Read Time: ", "n", " ms", NL, "Write Time: ", "n", " ms">>
    ELSE IF o.io = "none"
    THEN <<"No disk I/O statistics available">>
    ELSE <<"Error getting disk I/O statistics: ", "e">>

get_detailed_disk_info(o) ==
    LET parts == disk_partitions(o)
        loop == DetailedLoop(parts, 1, <<<<"=== Disk Partitions ===">>>>)
        disk_info == loop.disk_info
                        \o <<<<"=== Disk I/O Statistics ===">>, IoStatistics(o)>>
    IN IF loop.raised
       THEN Raised(<<"OSError: ", parts[loop.at].mountpoint>>,
                   <<"get_detailed_disk_info">>)
       ELSE Returned(<<TextContent(JoinNL(disk_info))>>, <<"get_detailed_disk_info">>)

HealthText == <<"Server is healthy and running">>

\* mutant: the final else answers like health instead of raising
call_tool_fallback(name, arguments, o) ==
    IF name = "get_disk_usage" THEN get_disk_usage(o)
    ELSE IF name = "get_detailed_disk_info" THEN get_detailed_disk_info(o)
    ELSE Returned(<<TextContent(HealthText)>>, <<"health">>)

\* call_tool(name, arguments): the arguments are never read
call_tool(name, arguments, o) ==
    IF name = "get_disk_usage" THEN get_disk_usage(o)
    ELSE IF name = "get_detailed_disk_info" THEN get_detailed_disk_info(o)
    ELSE IF name = "health" THEN Returned(<<TextContent(HealthText)>>, <<"health">>)
    ELSE Raised(<<"Unknown tool: ", name>>, <<>>)

EmptySchema == [type |-> "object", properties |-> {}, required |-> <<>>]

Tool(name, description) ==
    [name |-> name, description |-> description, inputSchema |-> EmptySchema]

\* mutant: a descriptor is left out of the listing
list_tools_short ==
    <<Tool("health", "Health check endpoint"),
      Tool("get_disk_usage", "Get disk usage information for all mounted filesystems")>>

list_tools ==
    <<Tool("health", "Health check endpoint"),
      Tool("get_disk_usage", "Get disk usage information for all mounted filesystems"),
      Tool("get_detailed_disk_info",
           "Get detailed disk information including partitions and usage statistics")>>

Listed(tools) ==
    [variant |-> "success", payload |-> "tools", content |-> <<>>,
     tools |-> tools, message |-> <<>>, ran |-> <<"list_tools">>]

\* mutant: once a request has failed, the server answers every request
\* with an error
DispatchPoisoned(req, o) ==
    IF \E i \in 1..Len(log) : log[i].outcome.variant = "error"
    THEN Raised(<<"Server error">>, <<>>)
    ELSE IF req.method = "tools/list" THEN Listed(list_tools)
    ELSE call_tool(req.name, req.arguments, o)

\* the low-level server routes a decoded request by its method
Dispatch(req, o) ==
    IF req.method = "tools/list" THEN Listed(list_tools)
    ELSE call_tool(req.name, req.arguments, o)

---------------------------------------------------------------------------
(* Server: requests in flight *)

NoArguments == {}

ArgumentMappings == {NoArguments, {<<"path", "/">>}}

\* names a client may ask for: the registered ones and near misses
RequestedNames == ToolNames \cup {"Health", "disk_usage"}

NoRequest ==
    [id |-> 0, method |-> "none", name |-> "", arguments |-> NoArguments,
     from |-> "none"]

CallRequest(id, name, arguments, from) ==
    [id |-> id, method |-> "tools/call", name |-> name, arguments |-> arguments,
     from |-> from]

ListRequest(id, from) ==
    [id |-> id, method |-> "tools/list", name |-> "", arguments |-> NoArguments,
     from |-> from]

OtherRequests ==
    {CallRequest(9, n, a, "other") : n \in RequestedNames, a \in ArgumentMappings}
        \cup {ListRequest(9, "other")}

Slots == 1..MaxInflight

Busy == {s \in Slots : inflight[s].method # "none"}

NoOutcome ==
    [variant |-> "none", payload |-> "none", content |-> <<>>, tools |-> <<>>,
     message |-> <<>>, ran |-> <<>>]

NoResponse == [pending |-> FALSE, status |-> 0, outcome |-> NoOutcome]

FreeSlots == Slots \ Busy

\* a connection is accepted on the lowest free slot
Accept(req) ==
    \E s \in FreeSlots :
        /\ \A t \in FreeSlots : s <= t
        /\ inflight' = [inflight EXCEPT ![s] = req]

\* a request of another client reaches the server on its own connection;
\* at most max requests are made in one run
Arrive(req, max) ==
    /\ Cardinality(Busy) + Len(log) < max
    /\ Accept(req)
    /\ UNCHANGED <<os, log, driverVars>>

\* handle_streamable_http: the session manager decodes the request and the
\* server runs the registered handler to completion (no handler awaits)
Handle(s) ==
    /\ inflight[s].method # "none"
    /\ LET req == inflight[s]
           outcome == Dispatch(req, os)
       IN /\ log' = Append(log, [req |-> req, outcome |-> outcome])
          /\ resp' = IF req.from = "driver"
                     THEN [pending |-> TRUE, status |-> 200, outcome |-> outcome]
                     ELSE resp
    /\ inflight' = [inflight EXCEPT ![s] = NoRequest]
    /\ UNCHANGED <<os, pc, step, reqState, sent, out, aborted>>

\* the transport answers the driver's request with a non-success status
\* without running a handler
TransportError(s) ==
    /\ inflight[s].from = "driver"
    /\ inflight' = [inflight EXCEPT ![s] = NoRequest]
    /\ resp' = [pending |-> TRUE, status |-> 500, outcome |-> NoOutcome]
    /\ UNCHANGED <<os, log, pc, step, reqState, sent, out, aborted>>

---------------------------------------------------------------------------
(* Request Driver *)

\* the four json= bodies of test_http_mcp_server, in program order
DriverRequests ==
    <<CallRequest(1, "health", NoArguments, "driver"),
      CallRequest(2, "get_disk_usage", NoArguments, "driver"),
      CallRequest(3, "get_detailed_disk_info", NoArguments, "driver"),
      ListRequest(4, "driver")>>

NumRequests == Len(DriverRequests)

DiskUsagePreviewLines == 10

DetailedPreviewLines == 15

\* how the transport writes the dispatcher's answer into the body:
\*   "json"         a JSON object, result for success, error for a failure
\*   "json_iserror" a JSON object whose result carries the failure's message
\*   "sse"          an event stream, which response.json() cannot decode
Encodings == {"json", "json_iserror", "sse"}

\* response.json() of a decodable body
ResponseData(outcome, enc) ==
    IF outcome.variant = "success"
    THEN [hasResult |-> TRUE, hasContent |-> outcome.payload = "content",
          content |-> outcome.content, hasTools |-> outcome.payload = "tools",
          tools |-> outcome.tools]
    ELSE IF enc = "json_iserror"
    THEN [hasResult |-> TRUE, hasContent |-> TRUE,
          content |-> <<TextContent(outcome.message)>>, hasTools |-> FALSE,
          tools |-> <<>>]
    ELSE [hasResult |-> FALSE, hasContent |-> FALSE, content |-> <<>>,
          hasTools |-> FALSE, tools |-> <<>>]

\* what the driver printed for one request: the status line, which branch it
\* took, the lines of a preview or a listing, and whether the whole response
\* text was printed
Printed(status, kind, lines, full) ==
    [status |-> status, kind |-> kind, lines |-> lines, full |-> full]

NothingPrinted == Printed(0, "none", <<>>, FALSE)

\* the else branch of every status check: status and response.text
PrintFailed(r) == Printed(r.status, "failed", <<>>, TRUE)

\* request 1: status line, then response.text whatever it holds
PrintHealth(r, enc) ==
    IF r.status = 200 THEN Printed(r.status, "raw", <<>>, TRUE) ELSE PrintFailed(r)

\* requests 2 and 3: the first n lines of content[0]['text']
PrintText(r, enc, n) ==
    IF r.status # 200 THEN PrintFailed(r)
    ELSE IF enc = "sse" THEN Printed(r.status, "decode_error", <<>>, TRUE)
    ELSE LET response_data == ResponseData(r.outcome, enc)
         IN IF response_data.hasResult /\ response_data.hasContent
            THEN LET content == response_data.content
                 IN IF content # <<>> /\ content[1].type = "text"
                    THEN Printed(r.status, "preview", Take(SplitNL(content[1].text), n), FALSE)
                    ELSE Printed(r.status, "no_text", <<>>, FALSE)
            ELSE Printed(r.status, "unexpected", <<>>, TRUE)

\* request 4: one line per tool
PrintTools(r, enc) ==
    IF r.status # 200 THEN PrintFailed(r)
    ELSE IF enc = "sse" THEN Printed(r.status, "decode_error", <<>>, TRUE)
    ELSE LET response_data == ResponseData(r.outcome, enc)
         IN IF response_data.hasResult /\ response_data.hasTools
            THEN Printed(r.status, "tools",
                         [i \in 1..Len(response_data.tools) |->
                             <<response_data.tools[i].name, ": ",
                               response_data.tools[i].description>>],
                         FALSE)
            ELSE Printed(r.status, "unexpected", <<>>, TRUE)

PrintFor(k, r, enc) ==
    IF k = 1 THEN PrintHealth(r, enc)
    ELSE IF k = 2 THEN PrintText(r, enc, DiskUsagePreviewLines)
    ELSE IF k = 3 THEN PrintText(r, enc, DetailedPreviewLines)
    ELSE PrintTools(r, enc)

\* await client.post(...): the request leaves on a new connection
DriverPost ==
    /\ pc = "post"
    /\ Accept(DriverRequests[step])
    /\ sent' = Append(sent, DriverRequests[step])
    /\ reqState' = [reqState EXCEPT ![step] = "awaiting"]
    /\ pc' = "await"
    /\ UNCHANGED <<os, log, step, resp, out, aborted>>

\* client.post raises before anything is sent (connection refused): control
\* leaves the try block for the except clause at the end of the function
DriverConnectFail ==
    /\ pc = "post"
    /\ reqState' = [reqState EXCEPT ![step] = "done"]
    /\ aborted' = TRUE
    /\ pc' = "finished"
    /\ UNCHANGED <<os, inflight, log, step, sent, resp, out>>

\* mutant: a timed-out request is posted again
DriverRetry ==
    /\ pc = "await"
    /\ reqState' = [reqState EXCEPT ![step] = "idle"]
    /\ pc' = "post"
    /\ resp' = NoResponse
    /\ UNCHANGED <<os, inflight, log, step, sent, out, aborted>>

\* client.post raises while waiting for the response (timeout, reset)
DriverTimeout ==
    /\ pc = "await"
    /\ reqState' = [reqState EXCEPT ![step] = "done"]
    /\ aborted' = TRUE
    /\ pc' = "finished"
    /\ resp' = NoResponse
    /\ UNCHANGED <<os, inflight, log, step, sent, out>>

\* mutant: a response that is not a success ends the run
DriverReceiveOrAbort(enc) ==
    /\ pc = "await"
    /\ resp.pending
    /\ out' = [out EXCEPT ![step] = PrintFor(step, resp, enc)]
    /\ reqState' = [reqState EXCEPT ![step] = "done"]
    /\ resp' = NoResponse
    /\ IF step = NumRequests \/ resp.status # 200 \/ resp.outcome.variant # "success"
       THEN pc' = "finished" /\ step' = step
       ELSE pc' = "post" /\ step' = step + 1
    /\ UNCHANGED <<os, inflight, log, sent, aborted>>

\* client.post returns: the status check and the prints that follow it
DriverReceive(enc) ==
    /\ pc = "await"
    /\ resp.pending
    /\ out' = [out EXCEPT ![step] = PrintFor(step, resp, enc)]
    /\ reqState' = [reqState EXCEPT ![step] = "done"]
    /\ resp' = NoResponse
    /\ IF step = NumRequests
       THEN pc' = "finished" /\ step' = step
       ELSE pc' = "post" /\ step' = step + 1
    /\ UNCHANGED <<os, inflight, log, sent, aborted>>

---------------------------------------------------------------------------
(* Specifications *)

Init ==
    /\ os \in OsStates
    /\ inflight = [s \in Slots |-> NoRequest]
    /\ log = <<>>
    /\ pc = "post"
    /\ step = 1
    /\ reqState = [k \in 1..NumRequests |-> "idle"]
    /\ sent = <<>>
    /\ resp = NoResponse
    /\ out = [k \in 1..NumRequests |-> NothingPrinted]
    /\ aborted = FALSE

\* the driver run against the server
Next ==
    \/ DriverPost
    \/ DriverConnectFail
    \/ DriverTimeout
    \/ \E s \in Slots : Handle(s)
    \/ \E s \in Slots : TransportError(s)
    \/ \E enc \in Encodings : DriverReceive(enc)

Spec == Init /\ [][Next]_vars

\* the server answering other clients on concurrent connections
NextServer ==
    \/ \E req \in OtherRequests : Arrive(req, MaxLog)
    \/ \E s \in Slots : Handle(s)

SpecServer == Init /\ [][NextServer]_vars

\* a longer run of a few kinds of request, some of which fail
RepeatedRequests ==
    {CallRequest(9, "health", NoArguments, "other"),
     CallRequest(9, "get_disk_usage", NoArguments, "other"),
     CallRequest(9, "Health", NoArguments, "other"),
     ListRequest(9, "other")}

NextIsolation ==
    \/ \E req \in RepeatedRequests : Arrive(req, MaxHistory)
    \/ \E s \in Slots : Handle(s)

SpecIsolation == Init /\ [][NextIsolation]_vars

---------------------------------------------------------------------------
(* Properties of the dispatcher and its handlers *)

Answered == {log[i] : i \in 1..Len(log)}

Calls(name) == {e \in Answered : e.req.method = "tools/call" /\ e.req.name = name}

\* C1: a tools/call for a name that is not exactly health, get_disk_usage or
\* get_detailed_disk_info, with any arguments, ends in the error variant
\* carrying the requested name, with no success payload and no handler run.
C1_UnknownOperation ==
    \A e \in Answered :
        (e.req.method = "tools/call" /\ e.req.name \notin ToolNames) =>
            /\ e.outcome.variant = "error"
            /\ e.outcome.message = <<"Unknown tool: ", e.req.name>>
            /\ e.outcome.payload = "none"
            /\ e.outcome.content = <<>>
            /\ e.outcome.ran = <<>>

C1_Witness ==
    \E e \in Answered :
        /\ e.req.method = "tools/call"
        /\ e.req.name = "Health"
        /\ e.req.arguments # NoArguments
        /\ e.outcome.variant = "error"

\* the lines of the single text block of a successful call
TextLines(outcome) == SplitNL(outcome.content[1].text)

StartsWith(line, token) == Len(line) >= 1 /\ line[1] = token

DeviceLines(lines) == {i \in 1..Len(lines) : StartsWith(lines[i], "Device: ")}

\* the lines of the j-th entry: from the j-th Device line up to the next one
EntryLines(lines, j) ==
    LET dl == DeviceLines(lines)
        nth(k) == CHOOSE i \in dl : Cardinality({m \in dl : m < i}) = k - 1
        last == IF j = Cardinality(dl) THEN Len(lines) ELSE nth(j + 1) - 1
    IN SubSeq(lines, nth(j), last)

HasLine(entry, token) == \E i \in 1..Len(entry) : StartsWith(entry[i], token)

UsageFigures == {"Total: ", "Used: ", "Free: ", "Usage: "}

OnlyPermissionErrors == \A i \in 1..Len(os.usage) : os.usage[i] \in {"ok", "perm"}

\* C2: when every failing usage query fails with a permission error,
\* get_disk_usage returns the success variant with exactly one text block
\* holding one entry per partition in partition order, a failing partition's
\* entry carrying "Status: Permission denied" and every other entry its
\* usage figures.
C2_PermissionDeniedEntries ==
    \A e \in Calls("get_disk_usage") :
        OnlyPermissionErrors =>
            /\ e.outcome.variant = "success"
            /\ Len(e.outcome.content) = 1
            /\ e.outcome.content[1].type = "text"
            /\ LET lines == TextLines(e.outcome)
               IN /\ Cardinality(DeviceLines(lines)) = Len(os.usage)
                  /\ \A j \in 1..Len(os.usage) :
                        LET entry == EntryLines(lines, j)
                        IN /\ entry[1] = <<"Device: ", DeviceNames[j]>>
                           /\ os.usage[j] = "perm" =>
                                 /\ HasLine(entry, "Status: Permission denied")
                                 /\ \A t \in UsageFigures : ~HasLine(entry, t)
                           /\ os.usage[j] = "ok" =>
                                 /\ ~HasLine(entry, "Status: Permission denied")
                                 /\ \A t \in UsageFigures : HasLine(entry, t)

\* every partition denies access, and one call answered it
C2_Witness ==
    /\ Len(os.usage) >= 2
    /\ \A i \in 1..Len(os.usage) : os.usage[i] = "perm"
    /\ \E e \in Calls("get_disk_usage") :
          /\ e.outcome.variant = "success"
          /\ Cardinality(DeviceLines(TextLines(e.outcome))) = Len(os.usage)

\* C3: a call to a registered name always returns the success variant,
\* whatever the kind of failure met at a mount point.
C3_RegisteredAlwaysSucceeds ==
    \A e \in Answered :
        (e.req.method = "tools/call" /\ e.req.name \in ToolNames) =>
            e.outcome.variant = "success"

ListedNames(tools) == {tools[i].name : i \in 1..Len(tools)}

UnknownTool(outcome) ==
    outcome.variant = "error" /\ StartsWith(outcome.message, "Unknown tool: ")

\* C4: whatever was answered before, tools/list returns exactly the three
\* descriptors health, get_disk_usage, get_detailed_disk_info in that order,
\* each with a non-empty name and description and an input schema with
\* empty properties, and the names listed are exactly the names the
\* dispatcher accepts.
C4_FixedDescriptors ==
    /\ \A e \in Answered :
          e.req.method = "tools/list" =>
              LET tools == e.outcome.tools
              IN /\ e.outcome.variant = "success"
                 /\ Len(tools) = 3
                 /\ tools[1].name = "health"
                 /\ tools[2].name = "get_disk_usage"
                 /\ tools[3].name = "get_detailed_disk_info"
                 /\ \A i \in 1..Len(tools) :
                       /\ tools[i].name # ""
                       /\ tools[i].description # ""
                       /\ tools[i].inputSchema.properties = {}
    /\ \A e, f \in Answered :
          (e.req.method = "tools/list" /\ f.req.method = "tools/list") =>
              e.outcome = f.outcome
    /\ \A e, c \in Answered :
          (e.req.method = "tools/list" /\ c.req.method = "tools/call") =>
              (c.req.name \in ListedNames(e.outcome.tools) <=> ~UnknownTool(c.outcome))

\* a listing answered after a call that failed
C4_Witness ==
    \E i, j \in 1..Len(log) :
        /\ i < j
        /\ log[i].outcome.variant = "error"
        /\ log[j].req.method = "tools/list"
        /\ Len(log[j].outcome.tools) = 3

---------------------------------------------------------------------------
(* Properties of the Request Driver *)

FailureKinds == {"failed", "unexpected", "decode_error"}

Awaiting == {k \in 1..NumRequests : reqState[k] = "awaiting"}

\* C9: the requests are posted in the fixed order health, get_disk_usage,
\* get_detailed_disk_info, tools/list with the ids 1, 2, 3, 4, none twice;
\* a request is posted only when the one before it is done, so at most one
\* request awaits its response; a run that ends without an exception has
\* posted all four.
C9_SequentialNoRetry ==
    /\ Len(sent) <= NumRequests
    /\ \A k \in 1..Len(sent) : sent[k] = DriverRequests[k] /\ sent[k].id = k
    /\ \A j, k \in 1..Len(sent) : j # k => sent[j].id # sent[k].id
    /\ \A k \in 2..NumRequests : reqState[k] # "idle" => reqState[k - 1] = "done"
    /\ Cardinality(Awaiting) <= 1
    /\ Cardinality({s \in Slots : inflight[s].from = "driver"}) <= 1
    /\ (pc = "finished" /\ ~aborted) => Len(sent) = NumRequests

\* the third request awaits its response, the two before it are done and
\* the fourth has not been posted
C9_Witness ==
    /\ pc = "await"
    /\ Len(sent) = 3
    /\ reqState = <<"done", "done", "awaiting", "idle">>
    /\ \E s \in Slots : inflight[s] = DriverRequests[3]

\* the dispatcher's answer to the driver's request k, when it gave one
AnswerTo(k) == {e \in Answered : e.req.from = "driver" /\ e.req.id = k}

Succeeded(k) ==
    /\ reqState[k] = "done"
    /\ out[k].status = 200
    /\ \E e \in AnswerTo(k) : e.outcome.variant = "success"

\* C10 as written: after every successful response the driver has printed
\* a bounded preview of the content text, not the whole payload.
C10_PreviewForEveryOperation ==
    \A k \in 1..NumRequests :
        Succeeded(k) => (out[k].kind = "preview" /\ ~out[k].full)

PreviewLimit(k) == IF k = 2 THEN DiskUsagePreviewLines ELSE DetailedPreviewLines

\* C10 (amended): after a successful response the driver prints the whole
\* response text for health, every listed tool for tools/list, and for
\* get_disk_usage and get_detailed_disk_info either, when the body does not
\* decode as JSON, the whole raw response, or a preview of exactly the first
\* 10 and 15 lines of the content text (all of them when there are fewer).
C10_PreviewOnlyForDiskCalls ==
    \A k \in 1..NumRequests :
        Succeeded(k) =>
            \A e \in AnswerTo(k) :
                LET all == IF k \in {2, 3} THEN TextLines(e.outcome) ELSE <<>>
                IN
                /\ k = 1 => (out[k].kind = "raw" /\ out[k].full)
                /\ k \in {2, 3} =>
                      \/ out[k].kind = "decode_error" /\ out[k].full
                      \/ /\ out[k].kind = "preview"
                         /\ ~out[k].full
                         /\ Len(out[k].lines) <= PreviewLimit(k)
                         /\ Len(out[k].lines) = Min(PreviewLimit(k), Len(all))
                         /\ \A i \in 1..Len(out[k].lines) : out[k].lines[i] = all[i]
                /\ k = 4 =>
                      \/ out[k].kind = "decode_error" /\ out[k].full
                      \/ /\ out[k].kind = "tools"
                         /\ Len(out[k].lines) = Len(e.outcome.tools)

\* both previews cut a longer text short
C10_Witness ==
    /\ Succeeded(2) /\ out[2].kind = "preview"
    /\ Len(out[2].lines) = DiskUsagePreviewLines
    /\ \E e \in AnswerTo(2) : Len(TextLines(e.outcome)) > DiskUsagePreviewLines
    /\ Succeeded(3) /\ out[3].kind = "preview"
    /\ Len(out[3].lines) = DetailedPreviewLines
    /\ \E e \in AnswerTo(3) : Len(TextLines(e.outcome)) > DetailedPreviewLines

---------------------------------------------------------------------------
(* Independence of requests *)

SameRequest(a, b) ==
    a.method = b.method /\ a.name = b.name /\ a.arguments = b.arguments

====
